---- MODULE Spec2Model ----
(***************************************************************************)
(* Model of the record-keeping core of libraryManagementSystem.py: the     *)
(* entities Book and User and the BackendManager that owns both lists and  *)
(* mediates add, borrow and return.                                        *)
(*                                                                         *)
(* A Python object reference to a Book is modelled by the position of the  *)
(* Book in BackendManager.books (books are appended and never removed, so  *)
(* a position denotes the same object for ever).  An identifier is a       *)
(* tagged value, because the code accepts any Python value as an id and    *)
(* behaves differently on a str (the front end and the seed data pass      *)
(* strings) and on an int (User.return_copy computes book.id - 1).         *)
(***************************************************************************)
EXTENDS Integers, Sequences, FiniteSets

\* ---------------------------------------------------------------- bounds
MaxBooks == 2
MaxUsers == 2
MaxQty == 2
MaxBorrows == 1

\* ------------------------------------------------------------ input sets
StrId(s) == [kind |-> "str", s |-> s, n |-> 0]
IntId(n) == [kind |-> "int", s |-> "", n |-> n]

BookNames == {"math3", "prog1"}
Prefixes == {"", "math", "prog1", "math34"}
UserNames == {"mostafa", "ali"}
BookIds == {StrId("103"), IntId(1), IntId(2)}
UserIds == {StrId("30301")}
Quantities == -1 .. MaxQty

\* books, users: BackendManager's lists.  call, ret, out: the last call, how
\* it ended and, for a query, the list or the object it returned.
\* pre_books, pre_users: the lists when the last call began.  rd: the
\* locals and the position of FrontendManager.read_user_name_and_book_name.
VARIABLES books, users, call, ret, out, pre_books, pre_users, rd

vars == <<books, users, call, ret, out, pre_books, pre_users, rd>>

\* ------------------------------------------------------------------ Book
Book(name, id, total_quantity) ==
    [name |-> name, id |-> id, total_quantity |-> total_quantity,
     total_borrows |-> 0]

\* Book.borrow: the test that decides the result, and the mutation.
Book_can_borrow(book) == book.total_quantity - book.total_borrows # 0

\* Book.borrow without its availability test.
Book_borrow_unchecked(book) ==
    [ok |-> TRUE, book |-> [book EXCEPT !.total_borrows = @ + 1]]

Book_borrow(book) ==
    IF Book_can_borrow(book)
    THEN [ok |-> TRUE, book |-> [book EXCEPT !.total_borrows = @ + 1]]
    ELSE [ok |-> FALSE, book |-> book]

Book_return_copy(book) ==
    IF book.total_borrows = 0
    THEN [ok |-> FALSE, book |-> book]
    ELSE [ok |-> TRUE, book |-> [book EXCEPT !.total_borrows = @ - 1]]

\* ------------------------------------------------------------------ User
User(name, id) == [name |-> name, id |-> id, borrowed_books |-> <<>>]

User_borrow(user, b) ==
    [user EXCEPT !.borrowed_books = Append(@, b)]

\* Python's `del lst[i]` on a list, i an int: a negative index counts from
\* the end, an index outside the list raises IndexError and changes nothing.
PyDel(lst, i) ==
    LET n == Len(lst)
        j == IF i < 0 THEN i + n ELSE i
    IN  IF j < 0 \/ j >= n
        THEN [exc |-> "IndexError", val |-> lst]
        ELSE [exc |-> "",
              val |-> [k \in 1 .. (n - 1) |->
                          IF k <= j THEN lst[k] ELSE lst[k + 1]]]

\* User.is_borrowed: some record of the user has the book's identifier.
User_is_borrowed(bks, user, b) ==
    \E k \in 1 .. Len(user.borrowed_books) :
        bks[user.borrowed_books[k]].id = bks[b].id

\* User.return_copy: at the first record with the book's identifier, delete
\* the element at position book.id - 1 and stop.  `book.id - 1` raises
\* TypeError when the id is a str.
User_return_copy(bks, user, b) ==
    IF ~User_is_borrowed(bks, user, b)
    THEN [exc |-> "", user |-> user]
    ELSE IF bks[b].id.kind = "str"
    THEN [exc |-> "TypeError", user |-> user]
    ELSE LET d == PyDel(user.borrowed_books, bks[b].id.n - 1)
         IN  [exc |-> d.exc, user |-> [user EXCEPT !.borrowed_books = d.val]]

\* -------------------------------------------------------- BackendManager
\* First position whose name matches, 0 for None.
FirstNamed(seq, name) ==
    IF \E k \in 1 .. Len(seq) : seq[k].name = name
    THEN CHOOSE k \in 1 .. Len(seq) :
            /\ seq[k].name = name
            /\ \A m \in 1 .. (k - 1) : seq[m].name # name
    ELSE 0

\* Lookups that keep scanning and return the last match.
LastNamed(seq, name) ==
    IF \E k \in 1 .. Len(seq) : seq[k].name = name
    THEN CHOOSE k \in 1 .. Len(seq) :
            /\ seq[k].name = name
            /\ \A m \in (k + 1) .. Len(seq) : seq[m].name # name
    ELSE 0

get_user_by_name_last(us, user_name) == LastNamed(us, user_name)

get_user_by_name(us, user_name) == FirstNamed(us, user_name)

\* A lookup that prefers the first book of that name with a copy left.
get_book_by_name_available(bks, book_name) ==
    IF \E k \in 1 .. Len(bks) :
          bks[k].name = book_name /\ Book_can_borrow(bks[k])
    THEN CHOOSE k \in 1 .. Len(bks) :
            /\ bks[k].name = book_name /\ Book_can_borrow(bks[k])
            /\ \A m \in 1 .. (k - 1) :
                  ~(bks[m].name = book_name /\ Book_can_borrow(bks[m]))
    ELSE FirstNamed(bks, book_name)

get_book_by_name(bks, book_name) == FirstNamed(bks, book_name)

\* The characters of the strings the model uses.
Spell(str) ==
    CASE str = "" -> <<>>
      [] str = "math" -> <<"m", "a", "t", "h">>
      [] str = "math3" -> <<"m", "a", "t", "h", "3">>
      [] str = "math34" -> <<"m", "a", "t", "h", "3", "4">>
      [] str = "prog1" -> <<"p", "r", "o", "g", "1">>

\* A test for equality in the place of str.startswith.
startswith_equal(str, prefix) == Spell(str) = Spell(prefix)

\* str.startswith
startswith(str, prefix) ==
    LET n == Spell(str)
        p == Spell(prefix)
    IN  Len(p) <= Len(n) /\ \A k \in 1 .. Len(p) : n[k] = p[k]

\* [book for book in self.books if book.name.startswith(prefix)], taken from
\* position k on; a book is its position in books.
RECURSIVE BooksFrom(_, _, _)
BooksFrom(bks, k, prefix) ==
    IF k > Len(bks) THEN <<>>
    ELSE (IF startswith(bks[k].name, prefix) THEN <<k>> ELSE <<>>)
            \o BooksFrom(bks, k + 1, prefix)

get_books_with_prefix(bks, prefix) == BooksFrom(bks, 1, prefix)

\* [user.name for user in self.users if user.is_borrowed(book)], taken from
\* position k on.
RECURSIVE NamesFrom(_, _, _, _)
NamesFrom(bks, us, k, b) ==
    IF k > Len(us) THEN <<>>
    ELSE (IF User_is_borrowed(bks, us[k], b) THEN <<us[k].name>> ELSE <<>>)
            \o NamesFrom(bks, us, k + 1, b)

\* The comprehension run over the users from the last to the first.
RECURSIVE NamesDownFrom(_, _, _, _)
NamesDownFrom(bks, us, k, b) ==
    IF k = 0 THEN <<>>
    ELSE (IF User_is_borrowed(bks, us[k], b) THEN <<us[k].name>> ELSE <<>>)
            \o NamesDownFrom(bks, us, k - 1, b)

get_users_borrowed_book_reversed(bks, us, book_name) ==
    LET b == get_book_by_name(bks, book_name)
    IN  IF b = 0 THEN <<>> ELSE NamesDownFrom(bks, us, Len(us), b)

\* get_users_borrowed_book that lists every user who holds any book.
get_users_borrowed_book_any(bks, us, book_name) ==
    IF get_book_by_name(bks, book_name) = 0 THEN <<>>
    ELSE LET Holds(user) == user.borrowed_books # <<>>
             sel == SelectSeq(us, Holds)
         IN  [k \in 1 .. Len(sel) |-> sel[k].name]

get_users_borrowed_book(bks, us, book_name) ==
    LET b == get_book_by_name(bks, book_name)
    IN  IF b = 0 THEN <<>> ELSE NamesFrom(bks, us, 1, b)

\* The reader of the front end before it is called.
RdIdle ==
    [pc |-> "idle", arg |-> 0, trials |-> 0, attempts |-> 0,
     user_name |-> "", book_name |-> "", result |-> "none"]

Call(op, user_name, book_name, prefix) ==
    [op |-> op, user_name |-> user_name, book_name |-> book_name,
     prefix |-> prefix]

Init ==
    /\ books = <<>>
    /\ users = <<>>
    /\ call = Call("init", "", "", "")
    /\ ret = "None"
    /\ out = <<>>
    /\ pre_books = <<>>
    /\ pre_users = <<>>
    /\ rd = RdIdle

\* History variables: the lists as they were when the last call began.
Snapshot ==
    /\ pre_books' = books
    /\ pre_users' = users
    /\ rd' = rd

add_book(name, id, total_quantity) ==
    /\ Len(books) < MaxBooks
    /\ books' = Append(books, Book(name, id, total_quantity))
    /\ users' = users
    /\ call' = Call("add_book", "", name, "")
    /\ ret' = "None"
    /\ out' = <<>>
    /\ Snapshot

add_user(name, id) ==
    /\ Len(users) < MaxUsers
    /\ users' = Append(users, User(name, id))
    /\ books' = books
    /\ call' = Call("add_user", name, "", "")
    /\ ret' = "None"
    /\ out' = <<>>
    /\ Snapshot

\* borrow_book that ignores the result of Book.borrow and records the borrow
\* on the user's side anyway.
borrow_book_result_nonatomic(bks, us, user_name, book_name) ==
    LET u == get_user_by_name(us, user_name)
        b == get_book_by_name(bks, book_name)
    IN  IF u = 0 \/ b = 0
        THEN [ret |-> "False", books |-> bks, users |-> us]
        ELSE [ret |-> "True",
              books |-> [bks EXCEPT ![b] = Book_borrow(bks[b]).book],
              users |-> [us EXCEPT ![u] = User_borrow(us[u], b)]]

\* borrow_book that tests only `user is None`: book.borrow() on None raises
\* AttributeError.
borrow_book_result_usercheck(bks, us, user_name, book_name) ==
    LET u == get_user_by_name(us, user_name)
        b == get_book_by_name(bks, book_name)
    IN  IF u = 0
        THEN [ret |-> "False", books |-> bks, users |-> us]
        ELSE IF b = 0
        THEN [ret |-> "AttributeError", books |-> bks, users |-> us]
        ELSE LET r == Book_borrow(bks[b])
             IN  IF r.ok
                 THEN [ret |-> "True",
                       books |-> [bks EXCEPT ![b] = r.book],
                       users |-> [us EXCEPT ![u] = User_borrow(us[u], b)]]
                 ELSE [ret |-> "False", books |-> bks, users |-> us]

\* borrow_book that takes the copy and forgets user.borrow(book).
borrow_book_result_norecord(bks, us, user_name, book_name) ==
    LET u == get_user_by_name(us, user_name)
        b == get_book_by_name(bks, book_name)
    IN  IF u = 0 \/ b = 0
        THEN [ret |-> "False", books |-> bks, users |-> us]
        ELSE LET r == Book_borrow(bks[b])
             IN  IF r.ok
                 THEN [ret |-> "True",
                       books |-> [bks EXCEPT ![b] = r.book],
                       users |-> us]
                 ELSE [ret |-> "False", books |-> bks, users |-> us]

\* The outcome of BackendManager.borrow_book on a state.
borrow_book_result(bks, us, user_name, book_name) ==
    LET u == get_user_by_name(us, user_name)
        b == get_book_by_name(bks, book_name)
    IN  IF u = 0 \/ b = 0
        THEN [ret |-> "False", books |-> bks, users |-> us]
        ELSE LET r == Book_borrow(bks[b])
             IN  IF r.ok
                 THEN [ret |-> "True",
                       books |-> [bks EXCEPT ![b] = r.book],
                       users |-> [us EXCEPT ![u] = User_borrow(us[u], b)]]
                 ELSE [ret |-> "False", books |-> bks, users |-> us]

\* return_book without the is_borrowed test: the book's counter is
\* decremented for a user who holds no record of it.
return_book_result_unchecked(bks, us, user_name, book_name) ==
    LET u == get_user_by_name(us, user_name)
        b == get_book_by_name(bks, book_name)
    IN  IF u = 0 \/ b = 0
        THEN [ret |-> "False", books |-> bks, users |-> us]
        ELSE LET r == User_return_copy(bks, us[u], b)
             IN  IF r.exc # ""
                 THEN [ret |-> r.exc, books |-> bks, users |-> us]
                 ELSE [ret |-> "True",
                       books |-> [bks EXCEPT ![b] = Book_return_copy(bks[b]).book],
                       users |-> [us EXCEPT ![u] = r.user]]

\* The outcome of BackendManager.return_book on a state.  An exception of
\* User.return_copy propagates: Book.return_copy is then not reached.
return_book_result(bks, us, user_name, book_name) ==
    LET u == get_user_by_name(us, user_name)
        b == get_book_by_name(bks, book_name)
    IN  IF u = 0 \/ b = 0
        THEN [ret |-> "False", books |-> bks, users |-> us]
        ELSE IF User_is_borrowed(bks, us[u], b)
        THEN LET r == User_return_copy(bks, us[u], b)
             IN  IF r.exc # ""
                 THEN [ret |-> r.exc, books |-> bks, users |-> us]
                 ELSE [ret |-> "True",
                       books |-> [bks EXCEPT ![b] = Book_return_copy(bks[b]).book],
                       users |-> [us EXCEPT ![u] = r.user]]
        ELSE [ret |-> "False", books |-> bks, users |-> us]

\* Only a book of negative total_quantity has an unbounded counter
\* (total_quantity - total_borrows never reaches 0): a borrow that would push
\* such a counter past MaxBorrows is not explored.
WithinBorrowCap(user_name, book_name) ==
    LET b == get_book_by_name(books, book_name)
    IN  IF b = 0 THEN TRUE
        ELSE IF get_user_by_name(users, user_name) = 0 THEN TRUE
        ELSE IF books[b].total_quantity >= 0 THEN TRUE
        ELSE books[b].total_borrows < MaxBorrows

borrow_book(user_name, book_name) ==
    /\ WithinBorrowCap(user_name, book_name)
    /\ LET r == borrow_book_result(books, users, user_name, book_name)
       IN  /\ books' = r.books
           /\ users' = r.users
           /\ ret' = r.ret
    /\ call' = Call("borrow_book", user_name, book_name, "")
    /\ out' = <<>>
    /\ Snapshot

return_book(user_name, book_name) ==
    /\ LET r == return_book_result(books, users, user_name, book_name)
       IN  /\ books' = r.books
           /\ users' = r.users
           /\ ret' = r.ret
    /\ call' = Call("return_book", user_name, book_name, "")
    /\ out' = <<>>
    /\ Snapshot

\* The four queries: they change neither list.
Query(c, r, o) ==
    /\ call' = c
    /\ ret' = r
    /\ out' = o
    /\ books' = books
    /\ users' = users
    /\ Snapshot

query_user_by_name(user_name) ==
    LET u == get_user_by_name(users, user_name)
    IN  Query(Call("get_user_by_name", user_name, "", ""),
              IF u = 0 THEN "None" ELSE "User",
              IF u = 0 THEN <<>> ELSE <<u>>)

query_book_by_name(book_name) ==
    LET b == get_book_by_name(books, book_name)
    IN  Query(Call("get_book_by_name", "", book_name, ""),
              IF b = 0 THEN "None" ELSE "Book",
              IF b = 0 THEN <<>> ELSE <<b>>)

query_users_borrowed_book(book_name) ==
    Query(Call("get_users_borrowed_book", "", book_name, ""), "list",
          get_users_borrowed_book(books, users, book_name))

query_books_with_prefix(prefix) ==
    Query(Call("get_books_with_prefix", "", "", prefix), "list",
          get_books_with_prefix(books, prefix))

AddBook ==
    \E name \in BookNames, id \in BookIds, q \in Quantities :
        add_book(name, id, q)

AddUser == \E name \in UserNames, id \in UserIds : add_user(name, id)

BorrowBook ==
    \E user_name \in UserNames, book_name \in BookNames :
        borrow_book(user_name, book_name)

ReturnBook ==
    \E user_name \in UserNames, book_name \in BookNames :
        return_book(user_name, book_name)

GetUserByName == \E user_name \in UserNames : query_user_by_name(user_name)

GetBookByName == \E book_name \in BookNames : query_book_by_name(book_name)

GetUsersBorrowedBook ==
    \E book_name \in BookNames : query_users_borrowed_book(book_name)

GetBooksWithPrefix == \E prefix \in Prefixes : query_books_with_prefix(prefix)

Next ==
    \/ AddBook
    \/ AddUser
    \/ BorrowBook
    \/ ReturnBook
    \/ GetUserByName
    \/ GetBookByName
    \/ GetUsersBorrowedBook
    \/ GetBooksWithPrefix

Spec == Init /\ [][Next]_vars

\* ---------------------------------------------------------- FrontendManager
\* read_user_name_and_book_name(trials = 3), one step per statement that
\* reads input or tests the loop.  The lists do not change while it runs.
DefaultTrials == 3

TrialArgs == 0 .. DefaultTrials

Backend == <<books, users, call, ret, out, pre_books, pre_users>>

\* The call and `trials += 1`.
ReadCall(trials) ==
    /\ rd.pc = "idle"
    /\ rd' = [RdIdle EXCEPT !.pc = "loop", !.arg = trials,
                            !.trials = trials + 1]
    /\ UNCHANGED Backend

\* `while trials > 0:` and, in the loop, `trials -= 1` and the prompt; out of
\* the loop, `return None, None`.
ReadLoop ==
    /\ rd.pc = "loop"
    /\ rd' = IF rd.trials > 0
             THEN [rd EXCEPT !.pc = "read_user", !.trials = @ - 1,
                             !.attempts = @ + 1]
             ELSE [rd EXCEPT !.pc = "done", !.result = "None"]
    /\ UNCHANGED Backend

\* `user_name = input(...)` and the test of the name.
ReadUser(user_name) ==
    /\ rd.pc = "read_user"
    /\ rd' = [rd EXCEPT !.user_name = user_name,
                        !.pc = IF get_user_by_name(users, user_name) = 0
                               THEN "loop" ELSE "read_book"]
    /\ UNCHANGED Backend

\* `book_name = input(...)`, the test of the name and
\* `return user_name, book_name`.
ReadBook(book_name) ==
    /\ rd.pc = "read_book"
    /\ rd' = IF get_book_by_name(books, book_name) = 0
             THEN [rd EXCEPT !.book_name = book_name, !.pc = "loop"]
             ELSE [rd EXCEPT !.book_name = book_name, !.pc = "done",
                             !.result = "names"]
    /\ UNCHANGED Backend

\* FrontendManager.add_dummy_data: six add_book calls, four add_user calls
\* and two borrow_book calls, on the empty lists of BackendManager.__init__.
DummyBooks ==
    << Book("math4", StrId("100"), 3), Book("math2", StrId("101"), 5),
       Book("math1", StrId("102"), 4), Book("math3", StrId("103"), 2),
       Book("prog1", StrId("201"), 3), Book("prog2", StrId("202"), 3) >>

DummyUsers ==
    << User("mostafa", StrId("30301")), User("ali", StrId("50501")),
       User("noha", StrId("70701")), User("ashraf", StrId("90901")) >>

add_dummy_data ==
    LET first == borrow_book_result(DummyBooks, DummyUsers,
                                    "mostafa", "math3")
        last == borrow_book_result(first.books, first.users,
                                   "noha", "math3")
    IN  [books |-> last.books, users |-> last.users, ret |-> last.ret,
         pre_books |-> first.books, pre_users |-> first.users]

\* FrontendManager.__init__: a new BackendManager, then add_dummy_data; the
\* last call made is borrow_book('noha', 'math3').
InitRead ==
    /\ books = add_dummy_data.books
    /\ users = add_dummy_data.users
    /\ call = Call("borrow_book", "noha", "math3", "")
    /\ ret = add_dummy_data.ret
    /\ out = <<>>
    /\ pre_books = add_dummy_data.pre_books
    /\ pre_users = add_dummy_data.pre_users
    /\ rd = RdIdle

\* What is typed at the prompts: the names of the seed data and a name that
\* no user and no book has.
UnknownName == "zzz"

TypedUserNames ==
    {DummyUsers[k].name : k \in 1 .. Len(DummyUsers)} \cup {UnknownName}

TypedBookNames ==
    {DummyBooks[k].name : k \in 1 .. Len(DummyBooks)} \cup {UnknownName}

ReadStart == \E trials \in TrialArgs : ReadCall(trials)

ReadUserName == \E user_name \in TypedUserNames : ReadUser(user_name)

ReadBookName == \E book_name \in TypedBookNames : ReadBook(book_name)

NextRead == ReadStart \/ ReadLoop \/ ReadUserName \/ ReadBookName

SpecRead == InitRead /\ [][NextRead]_vars

\* ------------------------------------------------ the last call, resolved
\* The operands of the last call, looked up in the lists as the call found
\* them (0: the name matched nothing).
PreUser == get_user_by_name(pre_users, call.user_name)

PreBook == get_book_by_name(pre_books, call.book_name)

Resolved == PreUser # 0 /\ PreBook # 0

Unchanged == books = pre_books /\ users = pre_users

\* The catalog holds only what the data model allows: identifiers and names
\* that are distinct, quantities that are not negative.  The statements that
\* the code violates are stated on such catalogs, so that a violation owes
\* nothing to a duplicate identifier or a negative quantity.
CleanCatalog ==
    /\ \A i, j \in 1 .. Len(books) :
          i # j => books[i].id # books[j].id /\ books[i].name # books[j].name
    /\ \A i \in 1 .. Len(books) : books[i].total_quantity >= 0
    /\ \A i, j \in 1 .. Len(users) : i # j => users[i].name # users[j].name

\* Every identifier is a string, as the data model declares and as the front
\* end and the seed data supply.
StringIds == \A i \in 1 .. Len(books) : books[i].id.kind = "str"

\* Number of records of book b (the object at position b) in a list.
RECURSIVE Records(_, _)
Records(lst, b) ==
    IF lst = <<>> THEN 0
    ELSE (IF Head(lst) = b THEN 1 ELSE 0) + Records(Tail(lst), b)

\* Number of records of book b held by the users us[1..n].
RECURSIVE Holders(_, _, _)
Holders(us, n, b) ==
    IF n = 0 THEN 0
    ELSE Records(us[n].borrowed_books, b) + Holders(us, n - 1, b)

\* ------------------------------------------------------------------- C1
\* C1: every book created with total_quantity >= 0 has
\* 0 <= total_borrows <= total_quantity in every reachable state.
BorrowsWithinQuantity ==
    \A k \in 1 .. Len(books) :
        books[k].total_quantity >= 0 =>
            /\ 0 <= books[k].total_borrows
            /\ books[k].total_borrows <= books[k].total_quantity

\* A borrow has just taken the last of two copies, so the next borrow meets
\* the upper bound.
BorrowsWithinQuantityWitness ==
    /\ call.op = "borrow_book"
    /\ ret = "True"
    /\ Resolved
    /\ books[PreBook].total_quantity = MaxQty
    /\ books[PreBook].total_borrows = books[PreBook].total_quantity

\* ------------------------------------------------------------------- C2
\* C2: borrow_book with both names resolving and the book fully lent out
\* (total_borrows = total_quantity) returns failure and leaves books and
\* users exactly as they were.
BorrowFullFails ==
    ( /\ call.op = "borrow_book"
      /\ Resolved
      /\ pre_books[PreBook].total_borrows = pre_books[PreBook].total_quantity )
    => (ret = "False" /\ Unchanged)

\* Such a call has happened on a book whose copies are all lent.
BorrowFullFailsWitness ==
    /\ call.op = "borrow_book"
    /\ Resolved
    /\ pre_books[PreBook].total_quantity > 0
    /\ pre_books[PreBook].total_borrows = pre_books[PreBook].total_quantity
    /\ ret = "False"

\* ------------------------------------------------------------------- C3
\* C3: a successful borrow_book(u, b) followed immediately by a successful
\* return_book(u, b) restores b's total_borrows and u's borrowed_books to
\* their values before the borrow.
RoundTripRestores ==
    [][ ( /\ CleanCatalog
          /\ call.op = "borrow_book"
          /\ ret = "True"
          /\ call'.op = "return_book"
          /\ call'.user_name = call.user_name
          /\ call'.book_name = call.book_name
          /\ ret' = "True" )
        => ( /\ books'[PreBook].total_borrows = pre_books[PreBook].total_borrows
             /\ users'[PreUser].borrowed_books
                    = pre_users[PreUser].borrowed_books ) ]_vars

\* ------------------------------------------------------------------- C4
\* Position of the first record of lst with the identifier of book b.
FirstMatch(bks, lst, b) ==
    CHOOSE k \in 1 .. Len(lst) :
        /\ bks[lst[k]].id = bks[b].id
        /\ \A m \in 1 .. (k - 1) : bks[lst[m]].id # bks[b].id

\* lst without its element at position k.
Without(lst, k) ==
    [m \in 1 .. (Len(lst) - 1) |-> IF m < k THEN lst[m] ELSE lst[m + 1]]

\* C4: return_book(u, b) when u holds a record of b succeeds, decrements
\* b's total_borrows by one, removes from u's borrowed_books exactly the
\* record that was found, and changes nothing else.
ReturnRemovesFoundRecord ==
    ( /\ CleanCatalog
      /\ StringIds
      /\ call.op = "return_book"
      /\ Resolved
      /\ User_is_borrowed(pre_books, pre_users[PreUser], PreBook) )
    => ( /\ ret = "True"
         /\ books = [pre_books EXCEPT ![PreBook].total_borrows = @ - 1]
         /\ users = [pre_users EXCEPT ![PreUser].borrowed_books =
                        Without(@, FirstMatch(pre_books, @, PreBook))] )

\* ------------------------------------------------------------------- C5
\* C5: return_book(u, b) with both names resolving and no record with b's
\* identifier in u's borrowed_books returns failure and leaves books and
\* users as they were.
ReturnNotBorrowedFails ==
    ( /\ call.op = "return_book"
      /\ Resolved
      /\ ~User_is_borrowed(pre_books, pre_users[PreUser], PreBook) )
    => (ret = "False" /\ Unchanged)

\* Such a call has happened while the book was lent to somebody else.
ReturnNotBorrowedFailsWitness ==
    /\ call.op = "return_book"
    /\ Resolved
    /\ ~User_is_borrowed(pre_books, pre_users[PreUser], PreBook)
    /\ pre_books[PreBook].total_borrows > 0
    /\ ret = "False"

\* ------------------------------------------------------------------- C6
\* C6: for every book, the number of records of it held across all users
\* never exceeds its total_borrows.
RecordsWithinBorrows ==
    CleanCatalog => \A b \in 1 .. Len(books) :
        Holders(users, Len(users), b) <= books[b].total_borrows

\* ------------------------------------------------------------------- C7
\* C7: no user's borrowed_books holds two records with the same book
\* identifier.
NoDuplicateRecord ==
    CleanCatalog => \A u \in 1 .. Len(users) :
        \A i, j \in 1 .. Len(users[u].borrowed_books) :
            i # j => books[users[u].borrowed_books[i]].id
                        # books[users[u].borrowed_books[j]].id

\* ------------------------------------------------------------------- C8
\* C8: no call of a core operation ends in a thrown fault: the result of
\* every call is a return value.
NoFault ==
    (CleanCatalog /\ StringIds)
        => ret \in {"None", "True", "False", "User", "Book", "list"}

\* ------------------------------------------------------------------- C9
\* C9: when a book is fully lent out, return_book by a user who holds it
\* makes the next borrow_book of that book by any known user succeed.
ReturnFreesCopy ==
    ( /\ CleanCatalog
      /\ StringIds
      /\ call.op = "return_book"
      /\ Resolved
      /\ pre_books[PreBook].total_quantity > 0
      /\ pre_books[PreBook].total_borrows = pre_books[PreBook].total_quantity
      /\ User_is_borrowed(pre_books, pre_users[PreUser], PreBook) )
    => \A name \in UserNames :
          get_user_by_name(users, name) # 0 =>
              borrow_book_result(books, users, name, call.book_name).ret = "True"

\* ------------------------------------------------------------------ C10
\* C10: borrow_book and return_book with a user name or a book name that
\* matches nothing return failure and leave books and users as they were.
UnknownNameFails ==
    ( /\ call.op \in {"borrow_book", "return_book"}
      /\ \/ \A k \in 1 .. Len(pre_users) : pre_users[k].name # call.user_name
         \/ \A k \in 1 .. Len(pre_books) : pre_books[k].name # call.book_name )
    => (ret = "False" /\ Unchanged)

\* A borrow has been refused for an unknown book while the user is known and
\* another book could have been lent.
UnknownNameFailsWitness ==
    /\ call.op = "borrow_book"
    /\ \E k \in 1 .. Len(pre_users) : pre_users[k].name = call.user_name
    /\ \A k \in 1 .. Len(pre_books) : pre_books[k].name # call.book_name
    /\ \E k \in 1 .. Len(pre_books) : Book_can_borrow(pre_books[k])
    /\ ret = "False"

\* ------------------------------------------------------------------ C11
\* Positions of the users who hold a record with the identifier of book b.
HoldersOf(bks, us, b) ==
    {k \in 1 .. Len(us) : User_is_borrowed(bks, us[k], b)}

\* The names of the users at the positions S, in the order of the list.
NamesAscending(us, S) ==
    [i \in 1 .. Cardinality(S) |->
        us[CHOOSE k \in S : Cardinality({j \in S : j < k}) = i - 1].name]

\* C11 as claimed: the names are listed in the order of borrowing, so a
\* successful borrow_book of b by a user not yet listed puts that user's name
\* at the end of get_users_borrowed_book(b).  Stated for a list of at most one
\* earlier borrower, which is in borrow order whatever the order of the users.
BorrowOrderListed ==
    [][ ( /\ CleanCatalog'
          /\ call'.op = "borrow_book"
          /\ ret' = "True"
          /\ Len(get_users_borrowed_book(books, users, call'.book_name)) <= 1
          /\ get_user_by_name(users, call'.user_name)
                \notin HoldersOf(books, users,
                                 get_book_by_name(books, call'.book_name)) )
        => get_users_borrowed_book(books', users', call'.book_name)
              = Append(get_users_borrowed_book(books, users, call'.book_name),
                       call'.user_name) ]_vars

\* C11 amended: a successful borrow_book of b by a user not yet listed puts
\* that user's name into get_users_borrowed_book(b) at the user's place in
\* the users list: the names come in add_user order, not in borrow order.
BorrowListedInUsersOrder ==
    [][ ( /\ call'.op = "borrow_book"
          /\ ret' = "True"
          /\ get_user_by_name(users, call'.user_name)
                \notin HoldersOf(books, users,
                                 get_book_by_name(books, call'.book_name)) )
        => get_users_borrowed_book(books', users', call'.book_name)
              = NamesAscending(users,
                    HoldersOf(books, users,
                              get_book_by_name(books, call'.book_name))
                    \cup {get_user_by_name(users, call'.user_name)}) ]_vars

\* The first user of the list has just borrowed a book that the second user
\* borrowed before: borrow order and list order differ.
BorrowListedInUsersOrderWitness ==
    /\ CleanCatalog
    /\ call.op = "borrow_book"
    /\ ret = "True"
    /\ PreUser = 1
    /\ HoldersOf(pre_books, pre_users, PreBook) = {2}
    /\ get_users_borrowed_book(books, users, call.book_name)
          = <<users[1].name, users[2].name>>

\* ------------------------------------------------------------------ C12
\* The characters of a string after its first n.
Rest(chars, n) == [k \in 1 .. (Len(chars) - n) |-> chars[k + n]]

HasPrefix(name, prefix) ==
    /\ Len(Spell(prefix)) <= Len(Spell(name))
    /\ Spell(name) = Spell(prefix) \o Rest(Spell(name), Len(Spell(prefix)))

\* C12: get_books_with_prefix(prefix) returns exactly the books whose name
\* starts with prefix, each once, in the order of the catalog; with the empty
\* prefix, every book.
PrefixSelectsInOrder ==
    call.op = "get_books_with_prefix" =>
        /\ ret = "list"
        /\ Unchanged
        /\ \A i, j \in 1 .. Len(out) : i < j => out[i] < out[j]
        /\ \A k \in 1 .. Len(books) :
              (\E i \in 1 .. Len(out) : out[i] = k)
                  <=> HasPrefix(books[k].name, call.prefix)
        /\ \A i \in 1 .. Len(out) : out[i] \in 1 .. Len(books)
        /\ call.prefix = "" => out = [k \in 1 .. Len(books) |-> k]

\* Prefix "math" over a catalog of prog1 and math3 has returned math3 alone.
PrefixSelectsInOrderWitness ==
    /\ call.op = "get_books_with_prefix"
    /\ call.prefix = "math"
    /\ Len(books) = 2
    /\ books[1].name = "prog1"
    /\ books[2].name = "math3"
    /\ out = <<2>>

\* ------------------------------------------------------------------ C13
\* C13: get_user_by_name / get_book_by_name return the first entry of the
\* list with that name, and None when there is none.
LookupResult(seq, name, kind) ==
    IF \A k \in 1 .. Len(seq) : seq[k].name # name
    THEN ret = "None" /\ out = <<>>
    ELSE /\ ret = kind
         /\ Len(out) = 1
         /\ out[1] \in 1 .. Len(seq)
         /\ seq[out[1]].name = name
         /\ \A m \in 1 .. (out[1] - 1) : seq[m].name # name

LookupFirstMatch ==
    /\ call.op = "get_user_by_name"
          => LookupResult(users, call.user_name, "User") /\ Unchanged
    /\ call.op = "get_book_by_name"
          => LookupResult(books, call.book_name, "Book") /\ Unchanged

\* A lookup of a user name that two users bear has returned the first.
LookupFirstMatchWitness ==
    /\ call.op = "get_user_by_name"
    /\ Len(users) = 2
    /\ users[1].name = call.user_name
    /\ users[2].name = call.user_name
    /\ out = <<1>>

\* ------------------------------------------------------------------ C14
\* C14: a successful borrow_book(u, b) increments b's total_borrows by one
\* and appends one record of b to u's borrowed_books, only when Book.borrow
\* accepted; no other book and no other user changes.
BorrowEffect ==
    (call.op = "borrow_book" /\ ret = "True")
    => ( /\ Resolved
         /\ pre_books[PreBook].total_quantity
                - pre_books[PreBook].total_borrows # 0
         /\ books = [pre_books EXCEPT ![PreBook].total_borrows = @ + 1]
         /\ users = [pre_users EXCEPT
                        ![PreUser].borrowed_books = Append(@, PreBook)] )

\* A user who already holds another book has borrowed one more.
BorrowEffectWitness ==
    /\ call.op = "borrow_book"
    /\ ret = "True"
    /\ Resolved
    /\ Len(pre_users[PreUser].borrowed_books) = 1
    /\ pre_users[PreUser].borrowed_books[1] # PreBook
    /\ Len(users[PreUser].borrowed_books) = 2

\* ------------------------------------------------------------------ C15
\* C15: get_users_borrowed_book(book_name) returns the empty list for an
\* unknown book; otherwise the names of exactly the users for whom
\* is_borrowed(book) holds, in the order of the users list.
BorrowersInUsersOrder ==
    call.op = "get_users_borrowed_book" =>
        /\ ret = "list"
        /\ Unchanged
        /\ IF \A k \in 1 .. Len(books) : books[k].name # call.book_name
           THEN out = <<>>
           ELSE out = NamesAscending(users, HoldersOf(books, users, PreBook))

\* The query has listed both users, each holding a copy of a two-copy book.
BorrowersInUsersOrderWitness ==
    /\ CleanCatalog
    /\ call.op = "get_users_borrowed_book"
    /\ Len(users) = 2
    /\ out = <<users[1].name, users[2].name>>
    /\ books[PreBook].total_borrows = 2

\* ------------------------------------------------------------------ C16
\* C16: no two books share an identifier and no two users share one.
UniqueIds ==
    /\ \A i, j \in 1 .. Len(books) : i # j => books[i].id # books[j].id
    /\ \A i, j \in 1 .. Len(users) : i # j => users[i].id # users[j].id

\* ------------------------------------------------------------------ C17
\* C17: a book of negative total_quantity is rejected, so none is in the
\* catalog and none is ever lent.  Stated by its last consequence: no book of
\* negative total_quantity has a copy out.
NoNegativeQuantity ==
    \A k \in 1 .. Len(books) :
        books[k].total_quantity >= 0 \/ books[k].total_borrows = 0

\* ------------------------------------------------------------------ C18
\* C18: no book's total_borrows exceeds the number of records of it that the
\* users hold.
NoCopyLeaked ==
    CleanCatalog =>
        \A b \in 1 .. Len(books) :
            books[b].total_borrows <= Holders(users, Len(users), b)

\* ------------------------------------------------------------------ C19
\* C19: a book that is not the first of its name in the catalog keeps
\* total_borrows = 0, whatever is borrowed or returned under that name.
ShadowedBookUntouched ==
    \A k \in 1 .. Len(books) :
        (\E m \in 1 .. (k - 1) : books[m].name = books[k].name)
            => books[k].total_borrows = 0

\* A borrow under a name that two books bear has been refused because the
\* first has no copy left, while the second has one.
ShadowedBookUntouchedWitness ==
    /\ call.op = "borrow_book"
    /\ ret = "False"
    /\ Len(books) = 2
    /\ books[1].name = call.book_name
    /\ books[2].name = call.book_name
    /\ books[1].total_quantity > 0
    /\ books[1].total_borrows = books[1].total_quantity
    /\ books[2].total_quantity > 0
    /\ \E k \in 1 .. Len(users) : users[k].name = call.user_name

\* ------------------------------------------------------------------ C20
\* C20: read_user_name_and_book_name(trials) makes at most `trials` attempts:
\* it never prompts more often than the number it was given.
ReadWithinTrials == rd.attempts <= rd.arg

====
